---- MODULE Spec2Model ----
(***************************************************************************)
(* MineNBT: the NBT codec of src/src/nbt.py, src/src/nbt_tag.py and        *)
(* src/src/stream.py.                                                      *)
(*                                                                         *)
(* Representation.  A byte is an integer 0..255 and a bytes object a       *)
(* sequence of bytes.  A str is the sequence of its code points; None is   *)
(* the one-element sequence <<-1>> (no code point is negative).  A tag is  *)
(* a record [id, name, payload]; id is the class's TAG_ID.  The payload of *)
(* a 1, 2 or 4 byte number is the signed integer, of a float its 32-bit    *)
(* pattern read as a signed integer, and of an 8 byte number (Long,        *)
(* Double) the pair <<high word, low word>> of signed 32-bit integers,     *)
(* because TLC's integers are 32 bits wide.                                *)
(***************************************************************************)
EXTENDS Integers, Sequences, FiniteSets, TLC

\* ------------------------------------------------------------------ bounds
MaxChunks == 3      \* an input buffer is at most this many chunks
MaxItems == 3       \* elements one container or the root list takes while decoding
MaxDepth == 3       \* nesting of containers being decoded at once
MaxAdd == 2         \* calls of NBT.add on one document
MaxReload == 1      \* how often built bytes are decoded again

\* ------------------------------------------------------- python primitives
None == <<-1>>

Min(a, b) == IF a < b THEN a ELSE b
Max(a, b) == IF a > b THEN a ELSE b

\* data[start:stop] for bytes, with Python's treatment of negative and
\* out-of-range bounds.
PySlice(s, start, stop) ==
  LET n == Len(s)
      a == IF start < 0 THEN Max(start + n, 0) ELSE Min(start, n)
      b == IF stop < 0 THEN Max(stop + n, 0) ELSE Min(stop, n)
  IN IF a < b THEN SubSeq(s, a + 1, b) ELSE <<>>

RECURSIVE SInt(_)
\* struct.unpack(">b" | ">h" | ">i"): big-endian two's complement
SInt(bs) ==
  IF Len(bs) = 1
  THEN (IF bs[1] >= 128 THEN bs[1] - 256 ELSE bs[1])
  ELSE (SInt(SubSeq(bs, 1, Len(bs) - 1)) * 256) + bs[Len(bs)]

RECURSIVE PackBE(_, _)
\* the w low-order bytes of n, big-endian
PackBE(n, w) ==
  IF w = 1 THEN <<n % 256>> ELSE PackBE(n \div 256, w - 1) \o <<n % 256>>

\* struct.pack raises struct.error when the number does not fit the format
\* (every integer TLC can hold fits ">i")
Fits(n, w) ==
  CASE w = 1 -> n >= -128 /\ n <= 127
    [] w = 2 -> n >= -32768 /\ n <= 32767
    [] OTHER -> TRUE

\* struct.unpack(">q" | ">d")
Unpack8(bs) == <<SInt(SubSeq(bs, 1, 4)), SInt(SubSeq(bs, 5, 8))>>
\* struct.pack(">q" | ">d")
Pack8(v) == PackBE(v[1], 4) \o PackBE(v[2], 4)

IsCont(b) == b >= 128 /\ b <= 191

\* number of bytes of the UTF-8 sequence starting at bs[i], 0 when invalid
Utf8Width(bs, i) ==
  LET b == bs[i]
      n == Len(bs)
      c(k) == IF i + k <= n THEN bs[i + k] ELSE 0
  IN CASE b < 128 -> 1
       [] b >= 194 /\ b <= 223 -> IF IsCont(c(1)) THEN 2 ELSE 0
       [] b >= 224 /\ b <= 239 ->
            IF /\ IsCont(c(1)) /\ IsCont(c(2))
               /\ (b = 224 => c(1) >= 160)
               /\ (b = 237 => c(1) <= 159)
            THEN 3 ELSE 0
       [] b >= 240 /\ b <= 244 ->
            IF /\ IsCont(c(1)) /\ IsCont(c(2)) /\ IsCont(c(3))
               /\ (b = 240 => c(1) >= 144)
               /\ (b = 244 => c(1) <= 143)
            THEN 4 ELSE 0
       [] OTHER -> 0

Utf8Point(bs, i, w) ==
  CASE w = 1 -> bs[i]
    [] w = 2 -> (bs[i] - 192) * 64 + (bs[i + 1] - 128)
    [] w = 3 -> ((bs[i] - 224) * 64 + (bs[i + 1] - 128)) * 64 + (bs[i + 2] - 128)
    [] OTHER -> (((bs[i] - 240) * 64 + (bs[i + 1] - 128)) * 64
                   + (bs[i + 2] - 128)) * 64 + (bs[i + 3] - 128)

RECURSIVE Utf8From(_, _)
Utf8From(bs, i) ==
  IF i > Len(bs) THEN [ok |-> TRUE, s |-> <<>>]
  ELSE LET w == Utf8Width(bs, i)
       IN IF w = 0 THEN [ok |-> FALSE, s |-> <<>>]
          ELSE LET r == Utf8From(bs, i + w)
               IN [ok |-> r.ok, s |-> <<Utf8Point(bs, i, w)>> \o r.s]

\* bytes.decode("utf-8"): ok = FALSE stands for UnicodeDecodeError
Utf8Decode(bs) == Utf8From(bs, 1)

Utf8Char(c) ==
  CASE c < 128 -> <<c>>
    [] c >= 128 /\ c < 2048 -> <<192 + (c \div 64), 128 + (c % 64)>>
    [] c >= 2048 /\ c < 65536 ->
         <<224 + (c \div 4096), 128 + ((c \div 64) % 64), 128 + (c % 64)>>
    [] OTHER ->
         <<240 + (c \div 262144), 128 + ((c \div 4096) % 64),
           128 + ((c \div 64) % 64), 128 + (c % 64)>>

RECURSIVE Utf8Encode(_)
\* str.encode("utf-8") (no decoded or constructed text here holds a surrogate)
Utf8Encode(s) ==
  IF s = <<>> THEN <<>> ELSE Utf8Char(Head(s)) \o Utf8Encode(Tail(s))


\* ------------------------------------------------------------------- tags
\* TAG_MAP: the registered type ids
TAG_MAP == 0 .. 12

\* the SIZE of the fixed-width classes (Byte, Short, Int, Long, Float, Double)
SIZE(id) ==
  CASE id = 1 -> 1 [] id = 2 -> 2 [] id = 3 -> 4
    [] id = 4 -> 8 [] id = 5 -> 4 [] id = 6 -> 8

\* bytes per element in the struct format of an array class
ElemWidth(id) == CASE id = 7 -> 1 [] id = 11 -> 4 [] id = 12 -> 8

MkTag(id, name, payload) == [id |-> id, name |-> name, payload |-> payload]

\* TagEnd(): no name, no payload
TagEnd == MkTag(0, None, 0)

\* ------------------------------------------------------------------ inputs
\* The pieces input buffers are put together from: single bytes, a 16-bit
\* number, headers of named tags with the empty name, a complete named Byte,
\* the element type and length of a List of one Byte or one IntArray, and
\* 32-bit numbers.
Chunks ==
  << <<0>>, <<1>>, <<13>>, <<255, 252>>,
     <<1, 0, 0, 5>>, <<7, 0, 0>>, <<9, 0, 0>>, <<10, 0, 0>>, <<11, 0, 0>>,
     <<1, 0, 0, 0, 1>>, <<11, 0, 0, 0, 1>>,
     <<0, 0, 0, 0>>, <<0, 0, 0, 1>>, <<255, 255, 255, 255>> >>

RECURSIVE Buffers(_)
\* the concatenations of at most k chunks
Buffers(k) ==
  IF k = 0 THEN {<<>>}
  ELSE LET shorter == Buffers(k - 1)
       IN shorter \cup {b \o Chunks[i] : b \in shorter, i \in 1 .. Len(Chunks)}

VARIABLES
  data,     \* NBT.data
  tags,     \* NBT.tags
  index,    \* Stream.index of the stream NBT.read decodes from
  stack,    \* the TagList.read and TagCompound.read calls in progress
  pc,       \* where the decoder stands
  cur,      \* locals of the read in progress: id, name, length, element id
  ret,      \* the tag the last read returned
  err,      \* the exception that ended decoding, or "" for none
  sub,      \* the Stream an array read makes of its slice: [data, index]
  result,   \* the last call on the finished document: what it returned or raised
  src,      \* the document the current bytes were built from, if any
  start     \* Stream.index when NBT.read made its latest call of Tag.create

vars ==
  <<data, tags, index, stack, pc, cur, ret, err, sub, result, src, start>>

NoCur == [id |-> 0, name |-> None, n |-> 0, elem |-> 0, field |-> "name"]
NoSub == [data |-> <<>>, index |-> 0]
NoResult == [op |-> "", err |-> "", value |-> <<>>]
NoSrc == [gen |-> 0, tags |-> <<>>, data |-> <<>>]

\* NBT.__init__: store the data, no tags, then read()
Construct(d) ==
  /\ data = d
  /\ tags = <<>>
  /\ index = 0
  /\ stack = <<>>
  /\ pc = "alive"
  /\ cur = NoCur
  /\ ret = TagEnd
  /\ err = ""
  /\ sub = NoSub
  /\ start = 0

Init ==
  /\ \E d \in Buffers(MaxChunks) : Construct(d)
  /\ result = NoResult
  /\ src = NoSrc

\* ------------------------------------------------------------------ stream
\* Stream.read raises EOFError unless index + size <= len(data)
ReadOK(size) == index + size <= Len(data)
\* the bytes Stream.read(size) returns
ReadBytes(size) == PySlice(data, index, index + size)

\* an exception leaves every read in progress
Raise(e, i) ==
  /\ pc' = "raised"
  /\ err' = e
  /\ index' = i
  /\ stack' = <<>>
  /\ UNCHANGED <<cur, ret>>

\* a read returns tag t to its caller
Return(t, i, stk) ==
  /\ pc' = "ret"
  /\ ret' = t
  /\ index' = i
  /\ stack' = stk
  /\ UNCHANGED <<cur, err>>

Goto(p, c, i, stk) ==
  /\ pc' = p
  /\ cur' = c
  /\ index' = i
  /\ stack' = stk
  /\ UNCHANGED <<ret, err>>

Frame(kind, name, elem, remaining) ==
  [kind |-> kind, name |-> name, elem |-> elem, remaining |-> remaining,
   payload |-> <<>>]

\* The body of TAG_MAP[id].read after its name is known (ids 1..12): the
\* fixed-width classes, the arrays, String and List go on to their first
\* read; TagCompound.read starts its loop of Tag.create.
StartPayload(stk, id, name, i) ==
  IF id = 10
  THEN /\ Len(stk) < MaxDepth
       /\ Goto("type", NoCur, i, Append(stk, Frame("compound", name, 0, 0)))
  ELSE Goto(CASE id \in 1 .. 6 -> "scalar"
              [] id \in {7, 11, 12} -> "arrlen"
              [] id = 8 -> "strlen"
              [] id = 9 -> "listid",
            [NoCur EXCEPT !.id = id, !.name = name, !.field = "payload"],
            i, stk)

\* tag_type.read(stream, named=False): TagEnd.read takes no such argument;
\* TagByte.read names the element "", every other class None.
StartElem(stk, elem, i) ==
  IF elem = 0 THEN Raise("TypeError", i)
  ELSE StartPayload(stk, elem, IF elem = 1 THEN <<>> ELSE None, i)


\* ----------------------------------------------------------------- decoder
\* NBT.read: while stream.alive(); the call of Tag.create that follows starts
\* at the cursor
NBTRead ==
  /\ pc = "alive"
  /\ pc' = IF index < Len(data) THEN "type" ELSE "done"
  /\ start' = index
  /\ UNCHANGED <<data, tags, index, stack, cur, ret, err, sub, result, src>>

\* Tag.create without the membership test: TAG_MAP[type_id] raises KeyError
CreateTagUnchecked ==
  /\ pc = "type"
  /\ UNCHANGED <<data, tags, sub, result, src, start>>
  /\ IF ~ReadOK(1) THEN Raise("EOFError", index)
     ELSE LET r == ReadBytes(1)
              i == index + 1
          IN IF r = <<>> THEN Raise("IndexError", i)
             ELSE IF r[1] \notin TAG_MAP THEN Raise("KeyError", i)
             ELSE IF r[1] = 0 THEN Return(TagEnd, i, stack)
             ELSE IF r[1] \in {11, 12} THEN Raise("TypeError", i)
             ELSE Goto("strlen", [NoCur EXCEPT !.id = r[1]], i, stack)

\* Tag.create: read the type id and dispatch to TAG_MAP[type_id].read(stream).
\* TagEnd.read returns at once; TagIntArray.read and TagLongArray.read call
\* read_string() without the stream, a TypeError; the others read their name.
CreateTag ==
  /\ pc = "type"
  /\ UNCHANGED <<data, tags, sub, result, src, start>>
  /\ IF ~ReadOK(1) THEN Raise("EOFError", index)
     ELSE LET r == ReadBytes(1)
              i == index + 1
          IN IF r = <<>> THEN Raise("IndexError", i)
             ELSE IF r[1] \notin TAG_MAP THEN Raise("NotImplementedError", i)
             ELSE IF r[1] = 0 THEN Return(TagEnd, i, stack)
             ELSE IF r[1] \in {11, 12} THEN Raise("TypeError", i)
             ELSE Goto("strlen", [NoCur EXCEPT !.id = r[1]], i, stack)

\* read_string, first line: the 16-bit signed length
ReadStringLen ==
  /\ pc = "strlen"
  /\ UNCHANGED <<data, tags, sub, result, src, start>>
  /\ IF ~ReadOK(2) THEN Raise("EOFError", index)
     ELSE LET r == ReadBytes(2)
              i == index + 2
          IN IF Len(r) # 2 THEN Raise("struct.error", i)
             ELSE Goto("strbytes", [cur EXCEPT !.n = SInt(r)], i, stack)

\* read_string, second line: stream.read(length).decode("utf-8"); the text is
\* the name of the tag being read or the payload of a TagString
ReadStringBytes ==
  /\ pc = "strbytes"
  /\ UNCHANGED <<data, tags, sub, result, src, start>>
  /\ IF ~ReadOK(cur.n) THEN Raise("EOFError", index)
     ELSE LET d == Utf8Decode(ReadBytes(cur.n))
              i == index + cur.n
          IN IF ~d.ok THEN Raise("UnicodeDecodeError", i)
             ELSE IF cur.field = "name" THEN StartPayload(stack, cur.id, d.s, i)
             ELSE Return(MkTag(8, cur.name, d.s), i, stack)

\* TagByte.read .. TagDouble.read: struct.unpack of stream.read(SIZE)
ReadScalar ==
  /\ pc = "scalar"
  /\ UNCHANGED <<data, tags, sub, result, src, start>>
  /\ LET w == SIZE(cur.id)
     IN IF ~ReadOK(w) THEN Raise("EOFError", index)
        ELSE LET r == ReadBytes(w)
                 i == index + w
             IN IF Len(r) # w THEN Raise("struct.error", i)
                ELSE Return(MkTag(cur.id, cur.name,
                                  IF w = 8 THEN Unpack8(r) ELSE SInt(r)),
                            i, stack)

\* TagByteArray.read, TagIntArray.read, TagLongArray.read: the length prefix
ReadArrayLen ==
  /\ pc = "arrlen"
  /\ UNCHANGED <<data, tags, sub, result, src, start>>
  /\ IF ~ReadOK(4) THEN Raise("EOFError", index)
     ELSE LET r == ReadBytes(4)
              i == index + 4
          IN IF Len(r) # 4 THEN Raise("struct.error", i)
             ELSE IF SInt(r) < 0 THEN Raise("ValueError", i)
             ELSE Goto("arrdata", [cur EXCEPT !.n = SInt(r)], i, stack)

\* the elements an array read unpacks from its slice
ArrayPayload(bs, w, n) ==
  [k \in 1 .. n |->
     LET e == SubSeq(bs, (k - 1) * w + 1, k * w)
     IN IF w = 8 THEN Unpack8(e) ELSE SInt(e)]

\* the array reads: data = Stream(stream.read(length)), then length reads of
\* one element each from data.  All three read `length` bytes, whatever the
\* width of an element.
ReadArrayData ==
  /\ pc = "arrdata"
  /\ UNCHANGED <<data, tags, result, src, start>>
  /\ IF ~ReadOK(cur.n)
     THEN Raise("EOFError", index) /\ sub' = sub
     ELSE LET r == ReadBytes(cur.n)
              i == index + cur.n
              w == ElemWidth(cur.id)
              got == Min(cur.n, Len(r) \div w)
          IN /\ sub' = [data |-> r, index |-> got * w]
             /\ IF got < cur.n THEN Raise("EOFError", i)
                ELSE Return(MkTag(cur.id, cur.name, ArrayPayload(r, w, cur.n)),
                            i, stack)

\* TagList.read: the element type id, checked against TAG_MAP at once
ReadListId ==
  /\ pc = "listid"
  /\ UNCHANGED <<data, tags, sub, result, src, start>>
  /\ IF ~ReadOK(1) THEN Raise("EOFError", index)
     ELSE LET r == ReadBytes(1)
              i == index + 1
          IN IF r = <<>> THEN Raise("IndexError", i)
             ELSE IF r[1] \notin TAG_MAP THEN Raise("NotImplementedError", i)
             ELSE Goto("listlen", [cur EXCEPT !.elem = r[1]], i, stack)

\* TagList.read: the length; elements are read only when it is positive
ReadListLen ==
  /\ pc = "listlen"
  /\ UNCHANGED <<data, tags, sub, result, src, start>>
  /\ IF ~ReadOK(4) THEN Raise("EOFError", index)
     ELSE LET r == ReadBytes(4)
              i == index + 4
          IN IF Len(r) # 4 THEN Raise("struct.error", i)
             ELSE IF SInt(r) > 0
             THEN /\ Len(stack) < MaxDepth
                  /\ StartElem(Append(stack, Frame("list", cur.name, cur.elem, SInt(r))),
                               cur.elem, i)
             ELSE Return(MkTag(9, cur.name, <<>>), i, stack)

Top == stack[Len(stack)]
Pop == SubSeq(stack, 1, Len(stack) - 1)

\* NBT.read: self.tags.append(Tag.create(stream))
AppendRoot ==
  /\ pc = "ret"
  /\ stack = <<>>
  /\ Len(tags) < MaxItems
  /\ tags' = Append(tags, ret)
  /\ pc' = "alive"
  /\ UNCHANGED <<data, index, stack, cur, ret, err, sub, result, src, start>>

\* TagCompound.read appending the tag before it tests for TagEnd
CompoundChildKeepsEnd ==
  /\ pc = "ret"
  /\ stack # <<>>
  /\ Top.kind = "compound"
  /\ UNCHANGED <<data, tags, sub, result, src, start>>
  /\ IF ret.id = 0
     THEN Return(MkTag(10, Top.name, Append(Top.payload, ret)), index, Pop)
     ELSE /\ Len(Top.payload) < MaxItems
          /\ Goto("type", NoCur, index,
                  [stack EXCEPT ![Len(stack)].payload = Append(@, ret)])

\* TagCompound.read: a TagEnd ends the loop and is dropped, any other tag is
\* appended to the payload
CompoundChild ==
  /\ pc = "ret"
  /\ stack # <<>>
  /\ Top.kind = "compound"
  /\ UNCHANGED <<data, tags, sub, result, src, start>>
  /\ IF ret.id = 0
     THEN Return(MkTag(10, Top.name, Top.payload), index, Pop)
     ELSE /\ Len(Top.payload) < MaxItems
          /\ Goto("type", NoCur, index,
                  [stack EXCEPT ![Len(stack)].payload = Append(@, ret)])

\* TagList.read: the list comprehension takes the element and reads the next
ListElem ==
  /\ pc = "ret"
  /\ stack # <<>>
  /\ Top.kind = "list"
  /\ UNCHANGED <<data, tags, sub, result, src, start>>
  /\ LET payload == Append(Top.payload, ret)
     IN IF Top.remaining = 1
        THEN Return(MkTag(9, Top.name, payload), index, Pop)
        ELSE /\ Len(payload) < MaxItems
             /\ StartElem([stack EXCEPT ![Len(stack)].payload = payload,
                                        ![Len(stack)].remaining = @ - 1],
                          Top.elem, index)

\* ----------------------------------------------------------------- encoder
Ok(bs) == [err |-> "", value |-> bs]
Fail(e) == [err |-> e, value |-> <<>>]

\* struct.pack of one number in a format of w bytes
Pack(v, w) ==
  IF w = 8 THEN Ok(Pack8(v))
  ELSE IF Fits(v, w) THEN Ok(PackBE(v, w)) ELSE Fail("struct.error")

RECURSIVE PackAll(_, _)
\* b''.join(struct.pack(fmt, value) for value in payload)
PackAll(vs, w) ==
  IF vs = <<>> THEN Ok(<<>>)
  ELSE LET h == Pack(Head(vs), w)
       IN IF h.err # "" THEN h
          ELSE LET t == PackAll(Tail(vs), w)
               IN IF t.err # "" THEN t ELSE Ok(h.value \o t.value)

\* struct.pack(">h", len(text)) + text.encode("utf-8"): the prefix is the
\* number of characters of the text
PackText(s) ==
  IF s = None THEN Fail("TypeError")
  ELSE IF ~Fits(Len(s), 2) THEN Fail("struct.error")
  ELSE Ok(PackBE(Len(s), 2) \o Utf8Encode(s))

\* all(isinstance(tag, tag_type) for tag in payload), tag_type the class of
\* the first element; every tag class derives from Tag alone
SameType(payload) == \A k \in 1 .. Len(payload) : payload[k].id = payload[1].id

RECURSIVE TagBuild(_), TagWrite(_), BuildAll(_), WriteAll(_), ListWrite(_)

\* b''.join(tag.build() for tag in ts)
BuildAll(ts) ==
  IF ts = <<>> THEN Ok(<<>>)
  ELSE LET h == TagBuild(Head(ts))
       IN IF h.err # "" THEN h
          ELSE LET t == BuildAll(Tail(ts))
               IN IF t.err # "" THEN t ELSE Ok(h.value \o t.value)

\* b''.join(tag.write() for tag in ts)
WriteAll(ts) ==
  IF ts = <<>> THEN Ok(<<>>)
  ELSE LET h == TagWrite(Head(ts))
       IN IF h.err # "" THEN h
          ELSE LET t == WriteAll(Tail(ts))
               IN IF t.err # "" THEN t ELSE Ok(h.value \o t.value)

\* TagList.write without the check that the elements are of one class
ListWriteUnchecked(t) ==
  IF Len(t.payload) = 0 THEN Ok(<<0>>)
  ELSE LET body == WriteAll(t.payload)
       IN IF body.err # "" THEN body
          ELSE Ok(<<t.payload[1].id>> \o PackBE(Len(t.payload), 4) \o body.value)

\* TagList.write
ListWrite(t) ==
  IF Len(t.payload) = 0 THEN Ok(<<0>>)
  ELSE IF ~SameType(t.payload) THEN Fail("ValueError")
  ELSE LET body == WriteAll(t.payload)
       IN IF body.err # "" THEN body
          ELSE Ok(<<t.payload[1].id>> \o PackBE(Len(t.payload), 4) \o body.value)

\* the write method of each class: the payload alone
TagWrite(t) ==
  CASE t.id = 0 -> Ok(<<>>)
    [] t.id \in 1 .. 6 -> Pack(t.payload, SIZE(t.id))
    [] t.id \in {7, 11, 12} ->
         LET body == PackAll(t.payload, ElemWidth(t.id))
         IN IF body.err # "" THEN body
            ELSE Ok(PackBE(Len(t.payload), 4) \o body.value)
    [] t.id = 8 -> PackText(t.payload)
    [] t.id = 9 -> ListWrite(t)
    [] t.id = 10 ->
         LET body == BuildAll(t.payload)
         IN IF body.err # "" THEN body ELSE Ok(body.value \o <<0>>)

\* Tag.build: the type id, the name unless the tag is a TagEnd, the payload
TagBuild(t) ==
  LET head == IF t.id = 0 THEN Ok(<<>>) ELSE PackText(t.name)
  IN IF head.err # "" THEN head
     ELSE LET body == TagWrite(t)
          IN IF body.err # "" THEN body
             ELSE Ok(<<t.id>> \o head.value \o body.value)

\* -------------------------------------------------------------------- dump
\* the "type" each __json__ writes
JsonType(id) ==
  CASE id = 0 -> "TAG_End" [] id = 1 -> "TAG_Byte" [] id = 2 -> "TAG_Short"
    [] id = 3 -> "TAG_Int" [] id = 4 -> "TAG_Long" [] id = 5 -> "TAG_Float"
    [] id = 6 -> "TAG_Double" [] id = 7 -> "TAG_ByteArray"
    [] id = 8 -> "TAG_String" [] id = 9 -> "TAG_List"
    [] id = 10 -> "TAG_Compound" [] id = 11 -> "TAG_IntArray"
    [] id = 12 -> "TAG_LongArray"

\* the TAG_NAME of each class
TAG_NAME(id) == IF id = 7 THEN "TAG_Byte_Array" ELSE JsonType(id)

RECURSIVE TagJson(_), JsonAll(_), JsonPayloads(_)

\* [tag.__json__() for tag in ts]
JsonAll(ts) ==
  IF ts = <<>> THEN Ok(<<>>)
  ELSE LET h == TagJson(Head(ts))
       IN IF h.err # "" THEN h
          ELSE LET t == JsonAll(Tail(ts))
               IN IF t.err # "" THEN t ELSE Ok(<<h.value>> \o t.value)

\* [tag.__json__()["payload"] for tag in ts]; TagEnd.__json__ has no "payload"
JsonPayloads(ts) ==
  IF ts = <<>> THEN Ok(<<>>)
  ELSE LET h == TagJson(Head(ts))
       IN IF h.err # "" THEN h
          ELSE IF Head(ts).id = 0 THEN Fail("KeyError")
          ELSE LET t == JsonPayloads(Tail(ts))
               IN IF t.err # "" THEN t ELSE Ok(<<h.value.payload>> \o t.value)

\* the __json__ method of each class.  TagList.__json__ takes tag_type to be
\* the str "TAG_End" for an empty list and then reads tag_type.TAG_NAME.
TagJson(t) ==
  CASE t.id = 0 -> Ok([type |-> "TAG_End"])
    [] t.id \in (1 .. 8) \cup {11, 12} ->
         Ok([type |-> JsonType(t.id), name |-> t.name, payload |-> t.payload])
    [] t.id = 9 ->
         IF Len(t.payload) = 0 THEN Fail("AttributeError")
         ELSE LET body == JsonPayloads(t.payload)
              IN IF body.err # "" THEN body
                 ELSE Ok([type |-> "TAG_List", name |-> t.name,
                          data_type |-> TAG_NAME(t.payload[1].id),
                          payload |-> body.value])
    [] t.id = 10 ->
         LET body == JsonAll(t.payload)
         IN IF body.err # "" THEN body
            ELSE Ok([type |-> "TAG_Compound", name |-> t.name,
                     payload |-> body.value])

\* -------------------------------------------------------------- documents
\* tags a caller constructs and adds: every tag has a str name except the
\* elements of a list, which are given None
ElemByte == MkTag(1, None, 1)
ElemShort == MkTag(2, None, 2)
BuildTags ==
  << MkTag(1, <<97>>, 1),
     MkTag(8, <<233>>, <<97, 233>>),
     MkTag(9, <<108>>, <<>>),
     MkTag(9, <<108>>, <<ElemByte, ElemByte>>),
     MkTag(9, <<108>>, <<ElemByte, ElemShort>>),
     MkTag(9, <<108>>, <<MkTag(9, None, <<ElemShort>>),
                         MkTag(9, None, <<ElemShort, ElemByte>>)>>),
     MkTag(10, <<99>>, <<MkTag(1, <<97>>, 1),
                         MkTag(9, <<108>>, <<ElemByte, ElemShort>>)>>) >>

Decoding == <<index, stack, pc, cur, ret, err, sub, start>>

\* NBT.add
Add ==
  /\ pc = "done"
  /\ Len(tags) < MaxAdd
  /\ \E k \in 1 .. Len(BuildTags) : tags' = Append(tags, BuildTags[k])
  /\ result' = [op |-> "add", err |-> "", value |-> <<>>]
  /\ UNCHANGED <<data, src>>
  /\ UNCHANGED Decoding

\* NBT.build: data is assigned only when every tag.build() has returned
Build ==
  /\ pc = "done"
  /\ LET r == BuildAll(tags)
     IN /\ result' = [op |-> "build", err |-> r.err, value |-> r.value]
        /\ data' = IF r.err = "" THEN r.value ELSE data
  /\ UNCHANGED <<tags, src>>
  /\ UNCHANGED Decoding

\* NBT.dict
Dict ==
  /\ pc = "done"
  /\ LET r == JsonAll(tags)
     IN result' = [op |-> "dict", err |-> r.err, value |-> r.value]
  /\ UNCHANGED <<data, tags, src>>
  /\ UNCHANGED Decoding

\* NBT(nb.build()): a new document is constructed from the bytes just built;
\* src keeps the document they were built from
Reload ==
  /\ pc = "done"
  /\ result.op = "build"
  /\ result.err = ""
  /\ src.gen < MaxReload
  /\ src' = [gen |-> src.gen + 1, tags |-> tags, data |-> data]
  /\ data' = data
  /\ tags' = <<>>
  /\ index' = 0
  /\ stack' = <<>>
  /\ pc' = "alive"
  /\ cur' = NoCur
  /\ ret' = TagEnd
  /\ err' = ""
  /\ sub' = NoSub
  /\ start' = 0
  /\ result' = NoResult

Decode ==
  \/ NBTRead
  \/ CreateTag
  \/ ReadStringLen
  \/ ReadStringBytes
  \/ ReadScalar
  \/ ReadArrayLen
  \/ ReadArrayData
  \/ ReadListId
  \/ ReadListLen
  \/ AppendRoot
  \/ CompoundChild
  \/ ListElem

\* a buffer is decoded; the document is built and dumped, and the bytes built
\* are decoded again
Next ==
  \/ Decode
  \/ Build
  \/ Dict
  \/ Reload

Spec == Init /\ [][Next]_vars

\* NBT(): a document made without data, to which tags are added
InitBuild ==
  /\ Construct(<<>>)
  /\ result = NoResult
  /\ src = NoSrc

NextBuild ==
  \/ NBTRead
  \/ Add
  \/ Build
  \/ Dict

SpecBuild == InitBuild /\ [][NextBuild]_vars


\* ------------------------------------------------------------------ claims
Finished == pc \in {"done", "raised"}

\* the document in hand was decoded from the bytes NBT.build made of a decoded
\* document
Redecoded == src.gen >= 1

\* C1: round trip. Decoding the bytes NBT.build makes of a decoded document
\* succeeds and yields the tags of that document.
C1_RoundTrip ==
  (Redecoded /\ Finished) => (pc = "done" /\ tags = src.tags)

\* C2: idempotent re-encode. The bytes built from a decoded document decode
\* again, and building what they decode to gives the same bytes.
C2_IdempotentReencode ==
  Redecoded =>
    /\ pc # "raised"
    /\ (result.op = "build" => result.err = "" /\ result.value = src.data)

RECURSIVE EmptyListsWriteFive(_)
EmptyListsWriteFive(ts) ==
  \A k \in 1 .. Len(ts) :
    /\ (ts[k].id = 9 /\ Len(ts[k].payload) = 0)
         => TagWrite(ts[k]) = Ok(<<0, 0, 0, 0, 0>>)
    /\ (ts[k].id \in {9, 10}) => EmptyListsWriteFive(ts[k].payload)

\* C3: empty list canonicalization. TagList.write of every List without
\* elements in a document is the bytes 00 00 00 00 00.
C3_EmptyListFiveBytes ==
  pc = "done" => EmptyListsWriteFive(tags)

\* the n bytes at the cursor, for a cursor inside the buffer
Ahead(n) == SubSeq(data, index + 1, index + n)
CanSee(n) == index >= 0 /\ index + n <= Len(data)

\* C4: empty-list decode leniency. When the length that follows the element
\* type id of a List is zero or negative, TagList.read accepts every type id
\* byte and returns a List without elements.
C4_EmptyListLenient ==
  [][/\ (pc = "listid" /\ CanSee(5) /\ SInt(SubSeq(Ahead(5), 2, 5)) <= 0)
          => (pc' = "listlen" /\ index' = index + 1)
     /\ (pc = "listlen" /\ CanSee(4) /\ SInt(Ahead(4)) <= 0)
          => (pc' = "ret" /\ ret' = MkTag(9, cur.name, <<>>)
              /\ index' = index + 4)]_vars

\* C5: cursor invariant. The position of every Stream the decoder reads from
\* stays between 0 and the length of its buffer.
C5_CursorInvariant ==
  /\ 0 <= index /\ index <= Len(data)
  /\ 0 <= sub.index /\ sub.index <= Len(sub.data)

\* the bytes at the cursor are a full ByteArray, IntArray or LongArray tag up
\* to its length prefix, and the prefix is negative
NegativeArrayAhead ==
  /\ CanSee(3)
  /\ Ahead(1)[1] \in {7, 11, 12}
  /\ LET n == SInt(SubSeq(Ahead(3), 2, 3))
     IN /\ n >= 0
        /\ CanSee(7 + n)
        /\ SInt(SubSeq(Ahead(7 + n), 4 + n, 7 + n)) < 0

\* C6: negative-length rejection. Tag.create on a named ByteArray, IntArray
\* or LongArray with a negative length prefix goes on to read the tag's name,
\* and the read of a negative length prefix, of a named tag or of a List
\* element, raises ValueError with the cursor right after the 4 length bytes.
C6_NegativeLengthRejected ==
  [][/\ (pc = "type" /\ NegativeArrayAhead)
          => (pc' = "strlen" /\ cur'.id = Ahead(1)[1])
     /\ (pc = "arrlen" /\ CanSee(4) /\ SInt(Ahead(4)) < 0)
          => (pc' = "raised" /\ err' = "ValueError" /\ index' = index + 4)]_vars

\* C7: unknown type rejection. When Tag.create reads a type id outside
\* 0..12, decoding ends with NotImplementedError and the cursor is one byte
\* past the start of the tag.
C7_UnknownTypeRejected ==
  [][(pc = "type" /\ ReadOK(1) /\ Len(ReadBytes(1)) = 1
        /\ ReadBytes(1)[1] \notin 0 .. 12)
       => (pc' = "raised" /\ err' = "NotImplementedError"
           /\ index' = index + 1)]_vars

\* Tag.create, at the root or in a Compound, has rejected a type id
C7_Witness ==
  /\ pc = "raised"
  /\ err = "NotImplementedError"
  /\ cur = NoCur
  /\ index >= 1 /\ index <= Len(data)
  /\ data[index] = 13

InCompound == stack # <<>> /\ stack[Len(stack)].kind = "compound"

RECURSIVE HasMixedList(_)
\* some List of the tags, at any depth, has elements of two variants
HasMixedList(ts) ==
  \E k \in 1 .. Len(ts) :
    \/ /\ ts[k].id = 9
       /\ \E i, j \in 1 .. Len(ts[k].payload) :
            ts[k].payload[i].id # ts[k].payload[j].id
    \/ (ts[k].id \in {9, 10}) /\ HasMixedList(ts[k].payload)

\* C9: heterogeneous list rejection. NBT.build of a document that holds, at
\* any depth, a List with elements of two variants raises ValueError, returns
\* no bytes and leaves NBT.data as it was.
C9_MixedListRejected ==
  [][(pc = "done" /\ HasMixedList(tags) /\ tags' = tags
        /\ result'.op = "build")
       => (result'.err = "ValueError" /\ result'.value = <<>>
           /\ data' = data)]_vars

\* NBT.build has refused a document whose second tag holds a mixed List
\* inside another List
C9_Witness ==
  /\ pc = "done"
  /\ result.op = "build"
  /\ result.err = "ValueError"
  /\ Len(tags) = 2
  /\ ~HasMixedList(<<tags[1]>>)
  /\ tags[2].id = 9
  /\ HasMixedList(tags[2].payload)

\* C10: the structural dump is total. NBT.dict of a decoded document returns
\* a value.
C10_DumpTotal ==
  result.op = "dict" => result.err = ""

\* the call of Tag.create made by NBT.read has returned a tag
RootDecoded == pc = "ret" /\ stack = <<>>

\* C11: decode terminates. Every root tag NBT.read decodes leaves the cursor
\* past the position where the tag started, so that the loop of NBT.read
\* comes to the end of the buffer or to an error.  Tag.create depends on the
\* buffer and the cursor alone: a root tag that leaves the cursor where it
\* started is decoded again and again.
C11_RootTagAdvances ==
  RootDecoded => index > start

\* the bytes at the cursor are a whole named ByteArray, IntArray or LongArray:
\* type id, name, a length prefix n >= 0 and n elements
NamedArrayAhead ==
  /\ CanSee(3)
  /\ Ahead(1)[1] \in {7, 11, 12}
  /\ LET l == SInt(SubSeq(Ahead(3), 2, 3))
     IN /\ l >= 0
        /\ CanSee(7 + l)
        /\ LET n == SInt(SubSeq(Ahead(7 + l), 4 + l, 7 + l))
           IN n >= 0 /\ CanSee(7 + l + n * ElemWidth(Ahead(1)[1]))

\* element k of an array of elements w bytes wide that starts at the cursor
WireElem(k, w) ==
  LET e == SubSeq(data, index + (k - 1) * w + 1, index + k * w)
  IN IF w = 8 THEN Unpack8(e) ELSE SInt(e)

\* C12: array decode layout. Tag.create on a named ByteArray, IntArray or
\* LongArray with length prefix n >= 0 and n elements of 1, 4 and 8 bytes
\* goes on to read the name; past the name the read takes the 4 bytes of the
\* prefix and then n times the width of an element, and returns the n
\* elements in the order of the buffer.
C12_ArrayLayout ==
  [][/\ (pc = "type" /\ NamedArrayAhead)
          => (pc' = "strlen" /\ cur'.id = Ahead(1)[1])
     /\ (pc = "arrlen" /\ cur.name # None /\ CanSee(4) /\ SInt(Ahead(4)) >= 0
           /\ CanSee(4 + SInt(Ahead(4)) * ElemWidth(cur.id)))
          => (pc' = "arrdata" /\ cur'.n = SInt(Ahead(4)) /\ index' = index + 4)
     /\ (pc = "arrdata" /\ cur.name # None
           /\ CanSee(cur.n * ElemWidth(cur.id)))
          => /\ pc' = "ret"
             /\ ret'.id = cur.id
             /\ ret'.name = cur.name
             /\ Len(ret'.payload) = cur.n
             /\ \A k \in 1 .. cur.n :
                  ret'.payload[k] = WireElem(k, ElemWidth(cur.id))
             /\ index' = index + cur.n * ElemWidth(cur.id)]_vars

RECURSIVE PrefixesCountBytes(_, _)
\* In the encoding of each of the tags, and of the tags inside them, a length
\* prefix is the number of bytes of the text after it.  built: the tags are
\* encoded by Tag.build (the tags of a document, the children of a Compound)
\* and not by write alone (the elements of a List).
PrefixesCountBytes(ts, built) ==
  \A k \in 1 .. Len(ts) :
    LET t == ts[k]
        b == TagBuild(t)
        w == TagWrite(t)
    IN /\ (built /\ t.id # 0 /\ b.err = "")
            => SInt(SubSeq(b.value, 2, 3)) = Len(b.value) - 3 - Len(w.value)
       /\ (t.id = 8 /\ w.err = "")
            => SInt(SubSeq(w.value, 1, 2)) = Len(w.value) - 2
       /\ (t.id = 9) => PrefixesCountBytes(t.payload, FALSE)
       /\ (t.id = 10) => PrefixesCountBytes(t.payload, TRUE)

\* C13: the length prefix counts bytes. In the bytes Tag.build makes of a tag
\* name and TagString.write makes of a payload, the 16-bit prefix is the
\* number of UTF-8 bytes that follow it, also for text with characters of
\* more than one byte.
C13_PrefixCountsBytes ==
  pc = "done" => PrefixesCountBytes(tags, TRUE)

====
